---- MODULE Spec2Model ----
(***************************************************************************)
(* Model of the multiline_abbr MkDocs plugin                               *)
(* (src/mkdocs/plugins/multiline_abbr/plugin.py):                          *)
(*   - detect_level / lines_to_html   the line classifier and renderer     *)
(*   - _load_abbrs                    the definition parser                *)
(*   - on_config / _replace_in_plain / on_page_markdown                    *)
(*                                    the substitution engine              *)
(*   - on_post_page                   the asset injector                   *)
(*   - the injected script            the tooltip controller and place()   *)
(*                                                                         *)
(* Text is modelled as a sequence of characters.  A character is a TLA+    *)
(* string; a multi-character token that the code only ever treats as a     *)
(* unit (a fence delimiter, a comment opener, a definition header) is one   *)
(* character of the model.  Non-ASCII characters carry ASCII names:        *)
(*   "di" "tiao" "xiang" "kuan" "mu" "ci"   the six CJK words of lines 8-12 *)
(*   "yi"     a CJK numeral of the class of lines 14 and 18                *)
(*   "dun"    the ideographic comma of lines 14 and 21                     *)
(*   "FLP" "FRP"  full-width parentheses,  "FCOLON" "FHY" full-width : -   *)
(***************************************************************************)
EXTENDS Integers, Sequences, FiniteSets, TLC

VARIABLES
    pc,          \* position of the build-time function under check
    line,        \* detect_level: its argument
    level,       \* detect_level: its result
    abbr_text,   \* _load_abbrs: the text read from includes/abbreviations.md
    abbr_map,    \* self.abbr_map
    markdown,    \* on_page_markdown: its argument
    page_out,    \* on_page_markdown: its result
    output_content, \* on_post_page: its argument
    post_out,    \* on_post_page: its result
    pinned,      \* script: let pinned
    owner,       \* script: let owner
    hideTimer,   \* script: whether the timeout held in hideTimer is live
    hideCause,   \* script: the call site of requestHide that armed the live timer
    tipDisplay,  \* script: tip.style.display
    tipHTML,     \* script: tip.innerHTML
    tipLeft2,    \* script: twice tip.style.left (left is a multiple of 1/2)
    tipTop,      \* script: tip.style.top
    layout,      \* script: what the last place() read from the page
    pointer,     \* browser: the element under the pointer
    lastEvent    \* browser: the event dispatched last

vars == <<pc, line, level, abbr_text, abbr_map, markdown, page_out,
          output_content, post_out, pinned, owner, hideTimer, hideCause,
          tipDisplay, tipHTML, tipLeft2, tipTop, layout, pointer, lastEvent>>

buildVars == <<pc, line, level, abbr_text, abbr_map, markdown, page_out,
               output_content, post_out>>

ctlVars == <<pinned, owner, hideTimer, hideCause, tipDisplay, tipHTML,
             tipLeft2, tipTop, layout, lastEvent>>

----------------------------------------------------------------------------
(* Generic helpers                                                         *)

\* All sequences over S of length 0..n.
SeqsUpTo(S, n) == UNION {[1..k -> S] : k \in 0..n}

----------------------------------------------------------------------------
(* Character classes of the regular expressions                            *)

Space == {" "}                       \* \s
Digit == {"1"}                       \* \d
Hyphen == {"-", "FHY"}               \* [-FHY], line 8
Colon == {":", "FCOLON"}             \* [FCOLON:], lines 9-12
CjkNum == {"yi"}                     \* the numeral class of lines 14, 18
Letter == {"A", "B"}                 \* [a-zA-Z], line 19
AlNum == Letter \cup Digit           \* [A-Za-z0-9], line 53

\* One element of a pattern: a character class and its quantifier.
One(c) == [cls |-> c, q |-> "1"]
Plus(c) == [cls |-> c, q |-> "+"]
Star(c) == [cls |-> c, q |-> "*"]
Opt(c) == [cls |-> c, q |-> "?"]

\* re: whether pattern pat, from its element i on, matches s from position j
\* (backtracking over the quantifiers); with toEnd the match must end at the
\* end of s, as under a trailing $.
RECURSIVE MatchFrom(_, _, _, _, _)
MatchFrom(pat, i, s, j, toEnd) ==
    IF i > Len(pat) THEN (~toEnd \/ j = Len(s) + 1)
    ELSE LET e == pat[i]
             here == j <= Len(s) /\ s[j] \in e.cls
         IN  CASE e.q = "1" -> here /\ MatchFrom(pat, i + 1, s, j + 1, toEnd)
               [] e.q = "?" -> \/ here /\ MatchFrom(pat, i + 1, s, j + 1, toEnd)
                               \/ MatchFrom(pat, i + 1, s, j, toEnd)
               [] e.q = "*" -> \/ here /\ MatchFrom(pat, i, s, j + 1, toEnd)
                               \/ MatchFrom(pat, i + 1, s, j, toEnd)
               [] e.q = "+" -> here /\ \/ MatchFrom(pat, i, s, j + 1, toEnd)
                                       \/ MatchFrom(pat, i + 1, s, j + 1, toEnd)

\* pat.search(s) for a pattern that starts with ^ (no MULTILINE flag).
SearchAnchored(pat, s) == MatchFrom(pat, 1, s, 1, FALSE)

----------------------------------------------------------------------------
(* Line classifier: LEVEL_RULES, detect_level                              *)

\* The pattern ^\s*di\s*\d+<word>[FCOLON:] of lines 9-12.
OrdinalRule(word) ==
    <<Star(Space), One({"di"}), Star(Space), Plus(Digit), Star(Space),
      One({word}), One(Colon)>>

LEVEL_RULES ==
    << <<<<Star(Space), One({"di"}), Star(Space), Plus(Digit), Opt(Hyphen),
           Star(Digit), Star(Space), One({"tiao"})>>, 0>>,
       <<OrdinalRule("xiang"), 1>>,
       <<OrdinalRule("kuan"), 2>>,
       <<OrdinalRule("mu"), 3>>,
       <<OrdinalRule("ci"), 4>>,
       <<<<Star(Space), Plus(CjkNum), One({"dun"})>>, 2>>,
       <<<<Star(Space), One({"FLP"}), Plus(Digit), One({"FRP"})>>, 3>>,
       <<<<Star(Space), One({"("}), Plus(Digit), One({")"})>>, 3>>,
       <<<<Star(Space), One({"FLP"}), Plus(CjkNum), One({"FRP"})>>, 3>>,
       <<<<Star(Space), One({"("}), One(Letter), One({")"})>>, 4>>,
       <<<<Star(Space), Plus(Digit), One({"dun"})>>, 2>> >>

\* The level of the first rule, from rule r on, whose pattern matches.
RECURSIVE FirstRule(_, _, _)
FirstRule(rules, r, s) ==
    IF r > Len(rules) THEN 0
    ELSE IF SearchAnchored(rules[r][1], s) THEN rules[r][2]
    ELSE FirstRule(rules, r + 1, s)

\* A loop that stops one rule early (for pat, lvl in LEVEL_RULES[:-1]).
detect_level_SkipsLastRule(s) ==
    FirstRule(SubSeq(LEVEL_RULES, 1, Len(LEVEL_RULES) - 1), 1, s)

detect_level(s) == FirstRule(LEVEL_RULES, 1, s)

----------------------------------------------------------------------------
(* Renderer: lines_to_html                                                 *)

\* str.rstrip(): s without its trailing whitespace.
RECURSIVE rstrip(_)
rstrip(s) ==
    IF s # <<>> /\ s[Len(s)] \in Space THEN rstrip(SubSeq(s, 1, Len(s) - 1))
    ELSE s

\* str.strip() == "": s is whitespace only.
IsBlank(s) == \A i \in 1..Len(s) : s[i] \in Space

\* html.escape(c) of one character (quote=True).
EscapeChar(c) ==
    CASE c = "&" -> "&amp;"
      [] c = "<" -> "&lt;"
      [] c = ">" -> "&gt;"
      [] c = "\"" -> "&quot;"
      [] c = "'" -> "&#x27;"
      [] OTHER -> c

\* html.escape(s).
HtmlEscape(s) == [i \in 1..Len(s) |-> EscapeChar(s[i])]

\* One <div class="mlabbr-line mlabbr-l{lvl}">{esc}</div> of line 38.
LineDiv(raw) ==
    [lvl |-> detect_level(rstrip(raw)), text |-> HtmlEscape(rstrip(raw))]

\* The concatenation of the divs, in order; "" for no lines.
lines_to_html(lines) == [i \in 1..Len(lines) |-> LineDiv(lines[i])]

----------------------------------------------------------------------------
(* Definition parser: ABBR_DEF_RE, _load_abbrs                             *)

\* A header *[KEY]: is one character of the model; m.group(1).strip() is
\* the key it names.
HeaderKey ==
    ("*[A]:" :> <<"A">>) @@ ("*[A-B]:" :> <<"A", "-", "B">>)
      @@ ("*[AB]:" :> <<"A", "B">>) @@ ("*[ ]:" :> <<>>)

Headers == DOMAIN HeaderKey

\* ABBR_DEF_RE.match(line): the header, then whitespace to the end.
IsHeader(ln) == MatchFrom(<<One(Headers), Star(Space)>>, 1, ln, 1, TRUE)

\* re.match(r"^\s*<!--", line).
IsCommentLine(ln) == SearchAnchored(<<Star(Space), One({"<!--"})>>, ln)

\* re.sub(r"<!--.*?-->", "", text, flags=re.DOTALL), from position i on.
RECURSIVE StripFrom(_, _)
StripFrom(text, i) ==
    IF i > Len(text) THEN <<>>
    ELSE IF text[i] = "<!--" /\ \E j \in (i + 1)..Len(text) : text[j] = "-->"
         THEN LET j == CHOOSE j \in (i + 1)..Len(text) :
                          /\ text[j] = "-->"
                          /\ \A h \in (i + 1)..(j - 1) : text[h] # "-->"
              IN  StripFrom(text, j + 1)
         ELSE <<text[i]>> \o StripFrom(text, i + 1)

StripComments(text) == StripFrom(text, 1)

\* str.splitlines(): the lines of text, "NL" the line break; a last line
\* without a break counts when it is not empty.
RECURSIVE SplitFrom(_, _, _)
SplitFrom(text, i, cur) ==
    IF i > Len(text) THEN (IF cur = <<>> THEN <<>> ELSE <<cur>>)
    ELSE IF text[i] = "NL" THEN <<cur>> \o SplitFrom(text, i + 1, <<>>)
    ELSE SplitFrom(text, i + 1, Append(cur, text[i]))

splitlines(text) == SplitFrom(text, 1, <<>>)

\* A finalisation that keeps the value a key already has (setdefault).
Finalize_FirstWins(st) ==
    IF st.hasKey /\ st.key # <<>> /\ st.buf # <<>>
    THEN [k \in DOMAIN st.map \cup {st.key} |->
             IF k \in DOMAIN st.map THEN st.map[k] ELSE lines_to_html(st.buf)]
    ELSE st.map

\* if key and buf: abbr_map[key] = lines_to_html(buf)
Finalize(st) ==
    IF st.hasKey /\ st.key # <<>> /\ st.buf # <<>>
    THEN [k \in DOMAIN st.map \cup {st.key} |->
             IF k = st.key THEN lines_to_html(st.buf) ELSE st.map[k]]
    ELSE st.map

\* One pass of the loop body of lines 69-83 over line ln;
\* st = [map, hasKey (key is not None), key, buf].
LoadStep(st, ln) ==
    IF IsCommentLine(ln) THEN st
    ELSE IF IsHeader(ln)
         THEN [map |-> Finalize(st), hasKey |-> TRUE,
               key |-> HeaderKey[ln[1]], buf |-> <<>>]
    ELSE IF st.hasKey
         THEN IF IsBlank(ln) /\ (st.buf = <<>> \/ IsBlank(st.buf[Len(st.buf)]))
              THEN st
              ELSE [st EXCEPT !.buf = Append(st.buf, ln)]
    ELSE st

RECURSIVE LoadLoop(_, _, _)
LoadLoop(st, lines, i) ==
    IF i > Len(lines) THEN st ELSE LoadLoop(LoadStep(st, lines[i]), lines, i + 1)

\* _load_abbrs on the text of the file.
load_abbrs(text) ==
    Finalize(LoadLoop([map |-> <<>>, hasKey |-> FALSE, key |-> <<>>,
                       buf |-> <<>>],
                      splitlines(StripComments(text)), 1))

----------------------------------------------------------------------------
(* Substitution engine: on_config, _replace_in_plain, on_page_markdown     *)

\* sorted(..., key=len) without reverse=True.
RECURSIVE SortedKeys_Ascending(_)
SortedKeys_Ascending(ks) ==
    IF ks = {} THEN <<>>
    ELSE LET k == CHOOSE k \in ks : \A h \in ks : Len(h) >= Len(k)
         IN  <<k>> \o SortedKeys_Ascending(ks \ {k})

\* sorted(abbr_map.keys(), key=len, reverse=True), from the keys ks.  Keys of
\* one length keep the dict's order, which the model leaves to CHOOSE: two
\* different keys of one length never match at one position.
RECURSIVE SortedKeys(_)
SortedKeys(ks) ==
    IF ks = {} THEN <<>>
    ELSE LET k == CHOOSE k \in ks : \A h \in ks : Len(h) <= Len(k)
         IN  <<k>> \o SortedKeys(ks \ {k})

\* Whether text holds key k at position p.
HasAt(text, p, k) ==
    /\ p + Len(k) - 1 <= Len(text)
    /\ \A i \in 1..Len(k) : text[p + i - 1] = k[i]

\* key_re at position p of text: the first key of the alternation that is
\* there with (?<![A-Za-z0-9]) before and (?![A-Za-z0-9]) after it; <<>> when
\* the pattern does not match at p.
RECURSIVE FirstKeyAt(_, _, _, _)
FirstKeyAt(keys, i, text, p) ==
    IF i > Len(keys) THEN <<>>
    ELSE IF /\ p = 1 \/ text[p - 1] \notin AlNum
            /\ HasAt(text, p, keys[i])
            /\ p + Len(keys[i]) > Len(text) \/ text[p + Len(keys[i])] \notin AlNum
         THEN keys[i]
    ELSE FirstKeyAt(keys, i + 1, text, p)

\* A character of the output, and a marker
\* <span class="mlabbr" data-mlabbr="{title}">{key}</span>.
CharItem(c) == [t |-> "ch", c |-> c, key |-> <<>>, title |-> <<>>]
SpanItem(k, title) == [t |-> "span", c |-> "", key |-> k, title |-> title]

CharItems(s) == [i \in 1..Len(s) |-> CharItem(s[i])]

\* html.escape(html_title) of line 99: the divs' tags and their (already
\* escaped) text are escaped for the attribute.
AttrEscape(h) ==
    [i \in 1..Len(h) |->
        [lvl |-> h[i].lvl, text |-> HtmlEscape(h[i].text), tags |-> "escaped"]]

\* repl(m) of lines 93-99 for the key k = m.group(1).
repl(map, k) ==
    IF k \notin DOMAIN map \/ map[k] = <<>> THEN CharItems(k)
    ELSE <<SpanItem(k, AttrEscape(map[k]))>>

\* self.key_re.sub(repl, text) from position p on.
RECURSIVE SubFrom(_, _, _, _)
SubFrom(map, keys, text, p) ==
    IF p > Len(text) THEN <<>>
    ELSE LET k == FirstKeyAt(keys, 1, text, p)
         IN  IF k = <<>> THEN <<CharItem(text[p])>> \o SubFrom(map, keys, text, p + 1)
             ELSE repl(map, k) \o SubFrom(map, keys, text, p + Len(k))

\* _replace_in_plain: key_re is None for an empty abbr_map.
replace_in_plain(map, text) ==
    IF DOMAIN map = {} THEN CharItems(text)
    ELSE SubFrom(map, SortedKeys(DOMAIN map), text, 1)

\* The delimiters: three backticks ("BT3") and three tildes ("TL3").
Fences == {"BT3", "TL3"}

\* re.split(r"(BT3.*?BT3|TL3.*?TL3)", markdown, flags=re.S) from position p
\* on, cur the plain part in progress: parts [code, s], plain and fenced in
\* turn.
RECURSIVE SplitParts(_, _, _)
SplitParts(text, p, cur) ==
    IF p > Len(text) THEN <<[code |-> FALSE, s |-> cur]>>
    ELSE IF text[p] \in Fences /\ \E q \in (p + 1)..Len(text) : text[q] = text[p]
         THEN LET q == CHOOSE q \in (p + 1)..Len(text) :
                          /\ text[q] = text[p]
                          /\ \A h \in (p + 1)..(q - 1) : text[h] # text[p]
              IN  <<[code |-> FALSE, s |-> cur],
                    [code |-> TRUE, s |-> SubSeq(text, p, q)]>>
                    \o SplitParts(text, q + 1, <<>>)
    ELSE SplitParts(text, p + 1, Append(cur, text[p]))

\* "".join(parts) after the loop of lines 106-107.
RECURSIVE JoinParts(_, _, _)
JoinParts(map, parts, i) ==
    IF i > Len(parts) THEN <<>>
    ELSE (IF parts[i].code THEN CharItems(parts[i].s)
          ELSE replace_in_plain(map, parts[i].s))
         \o JoinParts(map, parts, i + 1)

on_page_markdown(map, text) == JoinParts(map, SplitParts(text, 1, <<>>), 1)

----------------------------------------------------------------------------
(* Asset injector: on_post_page                                            *)

\* The string style of lines 112-236: the style block, then the script block.
StyleAndScript == <<"<style>", "<script>">>

\* output_content.replace("</body>", style + "</body>"), from position i on.
RECURSIVE ReplaceBody(_, _)
ReplaceBody(page, i) ==
    IF i > Len(page) THEN <<>>
    ELSE (IF page[i] = "</body>" THEN StyleAndScript \o <<"</body>">>
          ELSE <<page[i]>>)
         \o ReplaceBody(page, i + 1)

on_post_page(page) == ReplaceBody(page, 1)

----------------------------------------------------------------------------
(* Tooltip controller: the script of lines 153-235                         *)

NumMarkers == 2

\* const m = 10
Margin == 10

\* Elements of the page.  A marker is a span.mlabbr; marker 0 carries no
\* data-mlabbr payload.
Marker(i) == [kind |-> "marker", id |-> i]
PageEl == [kind |-> "page", id |-> 0]
TipEl == [kind |-> "tip", id |-> 0]
TipLineEl == [kind |-> "tipline", id |-> 0]
Null == [kind |-> "null", id |-> 0]

AllSpans == {Marker(i) : i \in 0..NumMarkers}

\* span.getAttribute("data-mlabbr"): marker i > 0 carries a document of i
\* lines, marker 0 nothing.
Payload(span) == lines_to_html([i \in 1..span.id |-> <<"x">>])

\* The spans that get listeners: if (!html) return;
ListenerSpans == {sp \in AllSpans : Payload(sp) # <<>>}

\* owner.contains(e.target): a marker holds text only.
Contains(el, target) == target = el

\* The script's variables and the tip's style, as one record.
Ctl ==
    [pinned |-> pinned, owner |-> owner, hideTimer |-> hideTimer,
     hideCause |-> hideCause, tipDisplay |-> tipDisplay, tipHTML |-> tipHTML,
     tipLeft2 |-> tipLeft2, tipTop |-> tipTop, layout |-> layout]

Commit(st) ==
    /\ pinned' = st.pinned
    /\ owner' = st.owner
    /\ hideTimer' = st.hideTimer
    /\ hideCause' = st.hideCause
    /\ tipDisplay' = st.tipDisplay
    /\ tipHTML' = st.tipHTML
    /\ tipLeft2' = st.tipLeft2
    /\ tipTop' = st.tipTop
    /\ layout' = st.layout

\* What place() reads: the anchor's rectangle, the tip's natural size and the
\* viewport: lay = [left, top, width, bottom, W, H, vw, vh].

\* Lines 175-177 without line 176, the clamp at the right edge.
PlaceLeft2_NoRightClamp(lay) ==
    LET l0 == 2 * lay.left + lay.width - lay.W
    IN  IF l0 < 2 * Margin THEN 2 * Margin ELSE l0

\* left of lines 175-177, doubled so that width / 2 - W / 2 stays whole.
PlaceLeft2(lay) ==
    LET l0 == 2 * lay.left + lay.width - lay.W
        l1 == IF l0 + 2 * lay.W + 2 * Margin > 2 * lay.vw
              THEN 2 * (lay.vw - lay.W - Margin) ELSE l0
    IN  IF l1 < 2 * Margin THEN 2 * Margin ELSE l1

\* top of lines 179-181.
PlaceTop(lay) ==
    LET t0 == lay.bottom + Margin
        t1 == IF t0 + lay.H + Margin > lay.vh
              THEN lay.top - lay.H - Margin ELSE t0
    IN  IF t1 < Margin THEN Margin ELSE t1

\* place(anchor), reading lay.
place(st, lay) ==
    [st EXCEPT !.tipDisplay = "block", !.tipLeft2 = PlaceLeft2(lay),
               !.tipTop = PlaceTop(lay), !.layout = lay]

showFor(st, span, lay) ==
    place([st EXCEPT !.owner = span, !.tipHTML = Payload(span),
                     !.tipDisplay = "block"], lay)

\* requestHide, called from `cause`: the running timeout is cleared and a
\* new one set.
requestHide(st, cause) ==
    IF st.pinned THEN st
    ELSE [st EXCEPT !.hideTimer = TRUE, !.hideCause = cause]

\* The callback without its if (!pinned).
hideCallback_NoPinnedCheck(st) ==
    [st EXCEPT !.hideTimer = FALSE, !.hideCause = "none",
               !.tipDisplay = "none", !.owner = Null]

\* The timeout's callback, lines 197-202.
hideCallback(st) ==
    LET fired == [st EXCEPT !.hideTimer = FALSE, !.hideCause = "none"]
    IN  IF ~st.pinned
        THEN [fired EXCEPT !.tipDisplay = "none", !.owner = Null]
        ELSE fired

\* The span's click listener, lines 212-216.
spanClick(st, span, lay) ==
    IF st.pinned /\ st.owner = span
    THEN requestHide([st EXCEPT !.pinned = FALSE], "click")
    ELSE showFor([st EXCEPT !.pinned = TRUE], span, lay)

\* The document's click listener, lines 222-227.
docClick(st, target) ==
    IF ~st.pinned THEN st
    ELSE IF target = TipEl \/ (st.owner # Null /\ Contains(st.owner, target))
         THEN st
    ELSE requestHide([st EXCEPT !.pinned = FALSE], "docclick")

\* The listener without its if (!pinned).
spanEnter_NoPinnedCheck(st, span, lay) == showFor(st, span, lay)

\* The span's mouseenter listener, line 209.
spanEnter(st, span, lay) == IF ~st.pinned THEN showFor(st, span, lay) ELSE st

\* The layouts the controller's place() reads: a marker with room below it
\* and one near the bottom edge (the tip goes above).
CtlLayouts ==
    {[left |-> 30, top |-> 30, width |-> 10, bottom |-> 40,
      W |-> 20, H |-> 20, vw |-> 80, vh |-> 80],
     [left |-> 60, top |-> 60, width |-> 15, bottom |-> 70,
      W |-> 20, H |-> 20, vw |-> 80, vh |-> 80]}

NoLayout ==
    [left |-> 0, top |-> 0, width |-> 0, bottom |-> 0,
     W |-> 0, H |-> 0, vw |-> 0, vh |-> 0]

Event(type, target) == [type |-> type, target |-> target]

\* The state when DOMContentLoaded has run; the pointer is over the page.
CtlInit ==
    /\ pinned = FALSE
    /\ owner = Null
    /\ hideTimer = FALSE
    /\ hideCause = "none"
    /\ tipDisplay = "none"
    /\ tipHTML = <<>>
    /\ tipLeft2 = 0
    /\ tipTop = 0
    /\ layout = NoLayout
    /\ pointer = PageEl
    /\ lastEvent = Event("load", Null)

\* No build-time function is running.
BuildIdle ==
    /\ pc = "idle"
    /\ line = <<>>
    /\ level = 0
    /\ abbr_text = <<>>
    /\ abbr_map = <<>>
    /\ markdown = <<>>
    /\ page_out = <<>>
    /\ output_content = <<>>
    /\ post_out = <<>>

\* The pointer comes onto a marker with listeners: mouseenter, with the
\* page laid out as one of lays.
MouseEnterAt(span, lays) ==
    /\ span \in ListenerSpans
    /\ pointer = PageEl
    /\ \E lay \in lays : Commit(spanEnter(Ctl, span, lay))
    /\ pointer' = span
    /\ lastEvent' = Event("mouseenter", span)
    /\ UNCHANGED buildVars

MouseEnter(span) == MouseEnterAt(span, CtlLayouts)

\* The pointer moves on the marker: mousemove, line 210.
MouseMoveAt(span, lays) ==
    /\ span \in ListenerSpans
    /\ pointer = span
    /\ IF ~pinned /\ owner = span
       THEN \E lay \in lays : Commit(place(Ctl, lay))
       ELSE Commit(Ctl)
    /\ lastEvent' = Event("mousemove", span)
    /\ UNCHANGED <<pointer, buildVars>>

MouseMove(span) == MouseMoveAt(span, CtlLayouts)

\* The pointer leaves the marker: mouseleave, line 211.
MouseLeave(span) ==
    /\ span \in ListenerSpans
    /\ pointer = span
    /\ Commit(requestHide(Ctl, "mouseleave"))
    /\ pointer' = PageEl
    /\ lastEvent' = Event("mouseleave", span)
    /\ UNCHANGED buildVars

\* A click on the marker under the pointer: the span's listener, then, as
\* the event bubbles, the document's.
ClickSpan(span) ==
    /\ span \in ListenerSpans
    /\ pointer = span
    /\ \E lay \in CtlLayouts : Commit(docClick(spanClick(Ctl, span, lay), span))
    /\ lastEvent' = Event("click", span)
    /\ UNCHANGED <<pointer, buildVars>>

\* The pointer comes onto the visible tip (its box or a line in it):
\* mouseenter on the tip, line 219.
TipEnter ==
    /\ pointer = PageEl
    /\ tipDisplay = "block"
    /\ Commit([Ctl EXCEPT !.hideTimer = FALSE, !.hideCause = "none"])
    /\ pointer' = TipEl
    /\ lastEvent' = Event("mouseenter", TipEl)
    /\ UNCHANGED buildVars

\* The pointer leaves the tip: mouseleave, line 220.
TipLeave ==
    /\ pointer = TipEl
    /\ Commit(requestHide(Ctl, "tipleave"))
    /\ pointer' = PageEl
    /\ lastEvent' = Event("mouseleave", TipEl)
    /\ UNCHANGED buildVars

\* The pointer comes onto, or leaves, the marker without payload: it has no
\* listeners.
BareEnter ==
    /\ pointer = PageEl
    /\ pointer' = Marker(0)
    /\ lastEvent' = Event("mouseenter", Marker(0))
    /\ Commit(Ctl)
    /\ UNCHANGED buildVars

BareLeave ==
    /\ pointer = Marker(0)
    /\ pointer' = PageEl
    /\ lastEvent' = Event("mouseleave", Marker(0))
    /\ Commit(Ctl)
    /\ UNCHANGED buildVars

\* The element a click at the pointer can have as its target.
ClickTargets ==
    IF pointer = TipEl THEN {TipEl, TipLineEl}
    ELSE IF pointer \in ListenerSpans THEN {}
    ELSE {pointer}

\* A click on an element without a click listener of its own: only the
\* document's listener runs.
ClickOther(target) ==
    /\ target \in ClickTargets
    /\ Commit(docClick(Ctl, target))
    /\ lastEvent' = Event("click", target)
    /\ UNCHANGED <<pointer, buildVars>>

\* keydown with e.key === "Escape", lines 229-234.
KeyEscape ==
    /\ Commit(requestHide([Ctl EXCEPT !.pinned = FALSE], "escape"))
    /\ lastEvent' = Event("keydown", Null)
    /\ UNCHANGED <<pointer, buildVars>>

\* The 120 ms are over: the live timeout's callback runs.  A tip that is
\* hidden is no longer under the pointer.
TimerFire ==
    /\ hideTimer
    /\ Commit(hideCallback(Ctl))
    /\ pointer' = IF pointer = TipEl /\ ~pinned THEN PageEl ELSE pointer
    /\ lastEvent' = Event("timeout", Null)
    /\ UNCHANGED buildVars

CtlNext ==
    \/ \E span \in AllSpans : MouseEnter(span)
    \/ \E span \in AllSpans : MouseMove(span)
    \/ \E span \in AllSpans : MouseLeave(span)
    \/ \E span \in AllSpans : ClickSpan(span)
    \/ TipEnter
    \/ TipLeave
    \/ BareEnter
    \/ BareLeave
    \/ \E target \in {PageEl, Marker(0), TipEl, TipLineEl} : ClickOther(target)
    \/ KeyEscape
    \/ TimerFire

InitCtl == BuildIdle /\ CtlInit

\* The controller in a loaded page.
SpecCtl == InitCtl /\ [][CtlNext]_vars

----------------------------------------------------------------------------
(* place() over the layouts a page can have                                *)

PlaceCells == 3

\* Marker positions, tip sizes and viewport sizes.  The anchor is the marker
\* under the pointer, so part of it is in the viewport.
PlaceLayouts ==
    {lay \in [left : {30 * i : i \in 0..(PlaceCells - 1)},
              top : {30 * i : i \in 0..(PlaceCells - 1)},
              width : {10, 15},
              bottom : {30 * i + 10 : i \in 0..(PlaceCells - 1)},
              W : {20 * i : i \in 1..PlaceCells},
              H : {20 * i : i \in 1..PlaceCells},
              vw : {40, 80},
              vh : {40, 80}] :
        /\ lay.bottom = lay.top + 10
        /\ lay.left < lay.vw
        /\ lay.top < lay.vh}

PlaceNext == \E span \in AllSpans : MouseEnterAt(span, PlaceLayouts)

\* A marker hovered in any layout: showFor, and with it place().
SpecPlace == InitCtl /\ [][PlaceNext]_vars

----------------------------------------------------------------------------
(* The build-time functions on bounded inputs                              *)

MaxLineLen == 3
MaxLines == 4
MaxPageLen == 5
MaxHtmlLen == 4

LineAlphabet ==
    {" ", "di", "1", "-", "tiao", "xiang", "kuan", "mu", "ci", ":", "yi",
     "dun", "FLP", "FRP", "(", ")", "A", "x"}

\* Lines with the ordinal markers of lines 8-12, which need four characters
\* and more: [ ]di[ ]1(|-|-1|1| )<word>(|:)(|x).
OrdinalLines ==
    {pre \o <<"di">> \o mid \o <<"1">> \o num \o <<w>> \o col \o post :
        pre \in {<<>>, <<" ">>}, mid \in {<<>>, <<" ">>},
        num \in {<<>>, <<"-">>, <<"-", "1">>, <<"1">>, <<" ">>},
        w \in {"tiao", "xiang", "kuan", "mu", "ci"},
        col \in {<<>>, <<":">>}, post \in {<<>>, <<"x">>}}

LineInputs == SeqsUpTo(LineAlphabet, MaxLineLen) \cup OrdinalLines

InitLevel ==
    /\ CtlInit
    /\ pc = "detect_level"
    /\ line \in LineInputs
    /\ level = -1
    /\ abbr_text = <<>>
    /\ abbr_map = <<>>
    /\ markdown = <<>>
    /\ page_out = <<>>
    /\ output_content = <<>>
    /\ post_out = <<>>

DetectLevel ==
    /\ pc = "detect_level"
    /\ level' = detect_level(line)
    /\ pc' = "done"
    /\ UNCHANGED <<line, abbr_text, abbr_map, markdown, page_out,
                   output_content, post_out, ctlVars, pointer>>

SpecLevel == InitLevel /\ [][DetectLevel]_vars

\* The lines of a definitions file: two headers, two body lines (levels 0
\* and 2), a blank line, a comment opener and a comment closer.
ParseLines ==
    {<<"*[A]:">>, <<"*[A-B]:">>, <<"x">>, <<"yi", "dun">>, <<>>,
     <<"<!--">>, <<"-->">>}

\* The text of a file with the lines ls, each ended by a line break.
RECURSIVE FileText(_)
FileText(ls) ==
    IF ls = <<>> THEN <<>> ELSE ls[1] \o <<"NL">> \o FileText(Tail(ls))

InitParse ==
    /\ CtlInit
    /\ pc = "on_config"
    /\ line = <<>>
    /\ level = 0
    /\ abbr_text \in {FileText(ls) : ls \in SeqsUpTo(ParseLines, MaxLines)}
    /\ abbr_map = <<>>
    /\ markdown = <<>>
    /\ page_out = <<>>
    /\ output_content = <<>>
    /\ post_out = <<>>

\* on_config: self.abbr_map = self._load_abbrs(self.abbr_file)
LoadAbbrs ==
    /\ pc = "on_config"
    /\ abbr_map' = load_abbrs(abbr_text)
    /\ pc' = "done"
    /\ UNCHANGED <<line, level, abbr_text, markdown, page_out,
                   output_content, post_out, ctlVars, pointer>>

SpecParse == InitParse /\ [][LoadAbbrs]_vars

\* The keys of the pages' indexes, and the header of each.
SubKeys == {<<"A">>, <<"A", "-", "B">>, <<"A", "B">>}

HeaderOf(k) == CHOOSE h \in Headers : HeaderKey[h] = k

\* A definitions file with one block per key of the sequence ks.
RECURSIVE DefsText(_)
DefsText(ks) ==
    IF ks = <<>> THEN <<>>
    ELSE <<HeaderOf(ks[1]), "NL", "x", "NL">> \o DefsText(Tail(ks))

\* The index on_config loads from the file that defines the keys ks.
IndexOf(ks) == load_abbrs(DefsText(SortedKeys(ks)))

PageAlphabet == {"A", "B", "-", "BT3", "TL3"}

InitSub ==
    /\ CtlInit
    /\ pc = "on_page_markdown"
    /\ line = <<>>
    /\ level = 0
    /\ abbr_text = <<>>
    /\ abbr_map \in {IndexOf(ks) : ks \in SUBSET SubKeys}
    /\ markdown \in SeqsUpTo(PageAlphabet, MaxPageLen)
    /\ page_out = <<>>
    /\ output_content = <<>>
    /\ post_out = <<>>

PageMarkdown ==
    /\ pc = "on_page_markdown"
    /\ page_out' = on_page_markdown(abbr_map, markdown)
    /\ pc' = "done"
    /\ UNCHANGED <<line, level, abbr_text, abbr_map, markdown,
                   output_content, post_out, ctlVars, pointer>>

SpecSub == InitSub /\ [][PageMarkdown]_vars

HtmlAlphabet == {"</body>", "<p>", "x"}

InitInject ==
    /\ CtlInit
    /\ pc = "on_post_page"
    /\ line = <<>>
    /\ level = 0
    /\ abbr_text = <<>>
    /\ abbr_map = <<>>
    /\ markdown = <<>>
    /\ page_out = <<>>
    /\ output_content \in SeqsUpTo(HtmlAlphabet, MaxHtmlLen)
    /\ post_out = <<>>

PostPage ==
    /\ pc = "on_post_page"
    /\ post_out' = on_post_page(output_content)
    /\ pc' = "done"
    /\ UNCHANGED <<line, level, abbr_text, abbr_map, markdown, page_out,
                   output_content, ctlVars, pointer>>

SpecInject == InitInject /\ [][PostPage]_vars

----------------------------------------------------------------------------
(* C5: the level of a line's leading enumerator                            *)

At(s, j, cls) == j <= Len(s) /\ s[j] \in cls

\* The first position from j on that holds no character of cls.
RECURSIVE Skip(_, _, _)
Skip(s, j, cls) == IF At(s, j, cls) THEN Skip(s, j + 1, cls) ELSE j

\* The enumerator a line starts with, read left to right after the leading
\* whitespace; "none" when it starts with none.
Enumerator(s) ==
    LET a == Skip(s, 1, Space)
    IN  IF At(s, a, {"di"})
        THEN LET b == Skip(s, a + 1, Space)
                 c == Skip(s, b, Digit)
                 d == Skip(s, c, Space)
                 e == Skip(s, IF At(s, c, Hyphen) THEN c + 1 ELSE c, Digit)
                 f == Skip(s, e, Space)
             IN  IF c = b THEN "none"
                 ELSE IF At(s, f, {"tiao"}) THEN "article"
                 ELSE IF At(s, d, {"xiang"}) /\ At(s, d + 1, Colon) THEN "paragraph"
                 ELSE IF At(s, d, {"kuan"}) /\ At(s, d + 1, Colon) THEN "item"
                 ELSE IF At(s, d, {"mu"}) /\ At(s, d + 1, Colon) THEN "subitem"
                 ELSE IF At(s, d, {"ci"}) /\ At(s, d + 1, Colon) THEN "clause"
                 ELSE "none"
        ELSE IF At(s, a, CjkNum)
        THEN (IF At(s, Skip(s, a, CjkNum), {"dun"}) THEN "cjk-bullet" ELSE "none")
        ELSE IF At(s, a, Digit)
        THEN (IF At(s, Skip(s, a, Digit), {"dun"}) THEN "arabic-bullet" ELSE "none")
        ELSE IF At(s, a, {"FLP"}) /\ At(s, a + 1, Digit)
        THEN (IF At(s, Skip(s, a + 1, Digit), {"FRP"}) THEN "fullwidth-paren-number"
              ELSE "none")
        ELSE IF At(s, a, {"FLP"}) /\ At(s, a + 1, CjkNum)
        THEN (IF At(s, Skip(s, a + 1, CjkNum), {"FRP"}) THEN "fullwidth-paren-cjk"
              ELSE "none")
        ELSE IF At(s, a, {"("}) /\ At(s, a + 1, Digit)
        THEN (IF At(s, Skip(s, a + 1, Digit), {")"}) THEN "paren-number" ELSE "none")
        ELSE IF At(s, a, {"("}) /\ At(s, a + 1, Letter) /\ At(s, a + 2, {")"})
        THEN "paren-letter"
        ELSE "none"

\* The level the claim gives each enumerator, the full-width parenthesized
\* CJK numeral at level cjkParen.
ClaimedLevel(e, cjkParen) ==
    CASE e = "article" -> 0
      [] e = "paragraph" -> 1
      [] e \in {"item", "cjk-bullet", "arabic-bullet"} -> 2
      [] e \in {"subitem", "fullwidth-paren-number", "paren-number"} -> 3
      [] e \in {"clause", "paren-letter"} -> 4
      [] e = "fullwidth-paren-cjk" -> cjkParen
      [] OTHER -> 0

\* C5 as claimed: detect_level returns the documented level of the line's
\* leading enumerator, level 4 for a full-width parenthesized CJK numeral,
\* and 0 for a line with no enumerator.
C5_Original ==
    pc = "done" => level = ClaimedLevel(Enumerator(line), 4)

\* C5 amended: detect_level returns the documented level of the line's
\* leading enumerator, with a full-width parenthesized CJK numeral at level 3
\* (not 4), and 0 for a line with no enumerator.
C5_LevelOfEnumerator ==
    pc = "done" => level = ClaimedLevel(Enumerator(line), 3)

\* detect_level has classified a line that starts with a full-width
\* parenthesized CJK numeral, at level 3.
C5_Witness ==
    /\ pc = "done"
    /\ Enumerator(line) = "fullwidth-paren-cjk"
    /\ level = 3

----------------------------------------------------------------------------
(* C4: duplicate keys in the definitions file                              *)

\* The lines the loop of _load_abbrs acts on: those of the text without its
\* block comments, less the comment-opener lines it skips.
SourceLines ==
    SelectSeq(splitlines(StripComments(abbr_text)), LAMBDA ln : ~IsCommentLine(ln))

\* The lines that open a block for key k.
BlockStarts(ls, k) ==
    {i \in 1..Len(ls) : IsHeader(ls[i]) /\ HeaderKey[ls[i][1]] = k}

\* The line after the block that starts at i.
BlockEnd(ls, i) ==
    IF \E j \in (i + 1)..Len(ls) : IsHeader(ls[j])
    THEN CHOOSE j \in (i + 1)..Len(ls) :
            IsHeader(ls[j]) /\ \A h \in (i + 1)..(j - 1) : ~IsHeader(ls[h])
    ELSE Len(ls) + 1

\* The body of the block that starts at i, from line j on: its lines, a
\* blank one only directly after a line that is not blank.
RECURSIVE BodyFrom(_, _, _)
BodyFrom(ls, i, j) ==
    IF j >= BlockEnd(ls, i) THEN <<>>
    ELSE (IF IsBlank(ls[j]) /\ (j = i + 1 \/ IsBlank(ls[j - 1])) THEN <<>>
          ELSE <<ls[j]>>)
         \o BodyFrom(ls, i, j + 1)

BlockBody(ls, i) == BodyFrom(ls, i, i + 1)

SetMax(S) == CHOOSE x \in S : \A y \in S : y <= x

DefinedKeys(ls) == {HeaderKey[ls[i][1]] : i \in {j \in 1..Len(ls) : IsHeader(ls[j])}}

\* C4 as claimed: for a key whose header opens more than one block, the
\* index holds the rendering of the body of the last of these blocks and
\* nothing of an earlier one.
C4_Original ==
    pc = "done" =>
        \A k \in DefinedKeys(SourceLines) \ {<<>>} :
            LET ls == SourceLines
                body == BlockBody(ls, SetMax(BlockStarts(ls, k)))
            IN  Cardinality(BlockStarts(ls, k)) > 1 =>
                    IF body = <<>> THEN k \notin DOMAIN abbr_map
                    ELSE k \in DOMAIN abbr_map /\ abbr_map[k] = lines_to_html(body)

\* C4 amended: for a key whose header opens more than one block, the index
\* holds the rendering of the body of the last of these blocks that has a
\* body (a block with no body lines after blank-line collapsing replaces
\* nothing), and nothing of an earlier one; the key is absent when none has.
C4_LastBlockWithBodyWins ==
    pc = "done" =>
        \A k \in DefinedKeys(SourceLines) \ {<<>>} :
            LET ls == SourceLines
                full == {i \in BlockStarts(ls, k) : BlockBody(ls, i) # <<>>}
            IN  Cardinality(BlockStarts(ls, k)) > 1 =>
                    IF full = {} THEN k \notin DOMAIN abbr_map
                    ELSE /\ k \in DOMAIN abbr_map
                         /\ abbr_map[k] = lines_to_html(BlockBody(ls, SetMax(full)))

\* A file was loaded in which a key has two blocks with different bodies,
\* and the index holds the second.
C4_Witness ==
    /\ pc = "done"
    /\ \E k \in DOMAIN abbr_map :
          LET ls == SourceLines
              starts == BlockStarts(ls, k)
          IN  /\ Cardinality(starts) > 1
              /\ \A i \in starts : BlockBody(ls, i) # <<>>
              /\ \E i \in starts :
                    lines_to_html(BlockBody(ls, i)) # abbr_map[k]
              /\ abbr_map[k] = lines_to_html(BlockBody(ls, SetMax(starts)))

----------------------------------------------------------------------------
(* C6, C7: what on_page_markdown wraps                                     *)

\* The text an output stands for: a marker shows its key.
RECURSIVE Flatten(_)
Flatten(out) ==
    IF out = <<>> THEN <<>>
    ELSE (IF out[1].t = "span" THEN out[1].key ELSE <<out[1].c>>)
         \o Flatten(Tail(out))

\* The markers of out, from item i on, p the position of item i in the text:
\* [start, key].
RECURSIVE MarkersFrom(_, _, _)
MarkersFrom(out, i, p) ==
    IF i > Len(out) THEN {}
    ELSE IF out[i].t = "span"
         THEN {[start |-> p, key |-> out[i].key]}
                 \cup MarkersFrom(out, i + 1, p + Len(out[i].key))
    ELSE MarkersFrom(out, i + 1, p + 1)

Markers(out) == MarkersFrom(out, 1, 1)

Covered(mk) == mk.start..(mk.start + Len(mk.key) - 1)

\* The positions of text, from p on, inside a fenced code block: a
\* delimiter opens a block, which runs up to the next delimiter of its kind
\* or, without one, to the end of the text.
RECURSIVE FencedFrom(_, _, _)
FencedFrom(text, p, open) ==
    IF p > Len(text) THEN {}
    ELSE IF open = "" /\ text[p] \notin Fences THEN FencedFrom(text, p + 1, "")
    ELSE {p} \cup FencedFrom(text, p + 1,
                     IF open = "" THEN text[p]
                     ELSE IF text[p] = open THEN "" ELSE open)

Fenced(text) == FencedFrom(text, 1, "")

\* Key k occurs at position p of text with no ASCII letter or digit before
\* or after it.
BoundaryValid(text, p, k) ==
    /\ p + Len(k) - 1 <= Len(text)
    /\ SubSeq(text, p, p + Len(k) - 1) = k
    /\ p > 1 => text[p - 1] \notin AlNum
    /\ p + Len(k) <= Len(text) => text[p + Len(k)] \notin AlNum

\* C6 as claimed: no marker lies in a fenced code block, every
\* boundary-valid occurrence of a key outside the fenced blocks is in a
\* marker, and the output reads as the page in the page's order.
C6_Original ==
    pc = "done" =>
        /\ Flatten(page_out) = markdown
        /\ \A mk \in Markers(page_out) : Covered(mk) \cap Fenced(markdown) = {}
        /\ \A k \in DOMAIN abbr_map : \A p \in 1..Len(markdown) :
              (/\ BoundaryValid(markdown, p, k)
               /\ (p..(p + Len(k) - 1)) \cap Fenced(markdown) = {})
              => \E mk \in Markers(page_out) :
                    (p..(p + Len(k) - 1)) \subseteq Covered(mk)

\* C7: every marker stands at a boundary-valid occurrence of its key, for
\* the longest key of the index that is boundary-valid at that position; and
\* the markers and the characters between them read as the page, each
\* character once (no marker in or over another).
C7_LongestMatchFirst ==
    pc = "done" =>
        /\ Flatten(page_out) = markdown
        /\ \A mk \in Markers(page_out) :
              /\ mk.key \in DOMAIN abbr_map
              /\ BoundaryValid(markdown, mk.start, mk.key)
              /\ \A k \in DOMAIN abbr_map :
                    BoundaryValid(markdown, mk.start, k) => Len(k) <= Len(mk.key)

\* A page was substituted in which two keys of the index are boundary-valid
\* at one position, and the marker there is for the longer one.
C7_Witness ==
    /\ pc = "done"
    /\ \E mk \in Markers(page_out) : \E k \in DOMAIN abbr_map :
          /\ k # mk.key
          /\ BoundaryValid(markdown, mk.start, k)
          /\ Len(k) < Len(mk.key)

----------------------------------------------------------------------------
(* C8: what on_post_page adds                                              *)

Count(sq, c) == Cardinality({i \in 1..Len(sq) : sq[i] = c})

\* C8 as claimed: the page comes back with one style block and one script
\* block, right before a closing body marker of the page, and is otherwise
\* unchanged.
C8_Original ==
    (pc = "done" /\ Count(output_content, "</body>") > 0) =>
        /\ Count(post_out, "<style>") = 1
        /\ Count(post_out, "<script>") = 1
        /\ \E i \in 1..Len(output_content) :
              /\ output_content[i] = "</body>"
              /\ post_out = SubSeq(output_content, 1, i - 1) \o StyleAndScript
                               \o SubSeq(output_content, i, Len(output_content))

----------------------------------------------------------------------------
(* C9: where place() puts the tip                                          *)

\* The tip lies in the viewport, Margin away from each edge.
InViewport ==
    /\ 2 * Margin <= tipLeft2
    /\ tipLeft2 + 2 * layout.W <= 2 * (layout.vw - Margin)
    /\ Margin <= tipTop
    /\ tipTop + layout.H <= layout.vh - Margin

\* The tip is below the marker unless there is no room for it there.
BelowUnlessNoRoom ==
    tipTop # layout.bottom + Margin =>
        layout.bottom + Margin + layout.H + Margin > layout.vh

\* The tip, with the margins, is no larger than the viewport.
TipFits ==
    /\ layout.W <= layout.vw - 2 * Margin
    /\ layout.H <= layout.vh - 2 * Margin

\* C9 as claimed: after place() the tip lies in the viewport with the margin
\* on every side, whatever its size, and is below the marker unless there is
\* no room below.
C9_Original ==
    tipDisplay = "block" => InViewport /\ BelowUnlessNoRoom

\* C9 amended: after place() a tip that fits (W <= vw - 20, H <= vh - 20)
\* lies in the viewport with the margin on every side; and the tip is below
\* the marker unless there is no room below.
C9_InViewportWhenItFits ==
    tipDisplay = "block" => (TipFits => InViewport) /\ BelowUnlessNoRoom

\* place() has moved a tip that fits to the right edge's margin and above
\* the marker.
C9_Witness ==
    /\ tipDisplay = "block"
    /\ TipFits
    /\ 2 * layout.left + layout.width + layout.W + 2 * Margin > 2 * layout.vw
    /\ tipLeft2 = 2 * (layout.vw - layout.W - Margin)
    /\ tipTop = layout.top - layout.H - Margin

----------------------------------------------------------------------------
(* C1, C2, C3, C10: the tooltip controller                                 *)

Visible == tipDisplay = "block"

\* C1 as claimed: the grace timer armed when the pointer left the hovered
\* marker hides the tip only if the pointer has not come onto a marker or
\* the tip since; with the pointer back on a marker or on the tip when the
\* 120 ms are over, the tip stays visible.
C1_Original ==
    [][(/\ TimerFire
        /\ hideCause = "mouseleave"
        /\ ~pinned
        /\ pointer \in ListenerSpans \cup {TipEl})
       => tipDisplay' = "block"]_vars

\* C2 as claimed: a pinned tip stays visible, pinned and with its owner in
\* every step but a click on the owner, a click outside the tip and the
\* owner, and Escape; a click on the tip or on a line in it changes nothing.
C2_Original ==
    [][pinned =>
          \/ pinned' /\ owner' = owner /\ tipDisplay' = "block"
          \/ ClickSpan(owner)
          \/ \E sp \in ListenerSpans \ {owner} : ClickSpan(sp)
          \/ \E target \in {PageEl, Marker(0)} : ClickOther(target)
          \/ KeyEscape]_vars

\* C3: while the tip is pinned, mouseenter and mousemove on any marker leave
\* owner, content and pinned as they are; the owner changes only in a click
\* on another marker, and that click (the document's listener included)
\* leaves the tip pinned to the marker clicked, showing its content.
C3_HoverSuppressedWhilePinned ==
    [][pinned =>
          /\ \A sp \in ListenerSpans :
                (MouseEnter(sp) \/ MouseMove(sp))
                => UNCHANGED <<owner, tipHTML, pinned>>
          /\ owner' # owner => \E sp \in ListenerSpans \ {owner} : ClickSpan(sp)
          /\ \A sp \in ListenerSpans \ {owner} :
                ClickSpan(sp)
                => /\ pinned'
                   /\ owner' = sp
                   /\ tipHTML' = Payload(sp)
                   /\ tipDisplay' = "block"]_vars

\* The pointer came onto another marker while the tip was pinned, and the
\* tip kept its owner.
C3_Witness ==
    /\ pinned
    /\ lastEvent.type = "mouseenter"
    /\ lastEvent.target \in ListenerSpans \ {owner}
    /\ pointer = lastEvent.target
    /\ tipHTML = Payload(owner)

\* C10: the tip is visible exactly when owner is not null, pinned holds only
\* with an owner and a visible tip, and the owner is a marker with a
\* payload.
C10_StateConsistent ==
    /\ Visible <=> owner # Null
    /\ pinned => owner # Null /\ Visible
    /\ owner # Null => owner \in AllSpans /\ Payload(owner) # <<>>

\* A timer armed before the tip was pinned has fired, and the tip is still
\* pinned and visible.
C10_Witness ==
    /\ lastEvent.type = "timeout"
    /\ pinned
    /\ Visible
    /\ owner \in ListenerSpans

====
